---- MODULE Spec2Model ----
(***************************************************************************)
(* The live-poll server (backend/server.js) as a state machine.            *)
(*                                                                         *)
(* Every socket.io handler is an async function.  It runs without          *)
(* interruption up to its next awaited store operation, where it is        *)
(* suspended; other handlers run meanwhile.  A handler in flight occupies  *)
(* one slot of `handlers`, its pc naming the awaited operation.  The       *)
(* action that completes an awaited operation applies the operation to     *)
(* the store and runs the handler's code up to the next await.             *)
(*                                                                         *)
(* Awaits that involve no I/O (a promise that is already settled: a save   *)
(* rejected by validation or as a parallel save, io.fetchSockets() of the  *)
(* in-memory adapter) resume in the microtask queue, before any other      *)
(* handler can run, and are not suspension points.                         *)
(*                                                                         *)
(* Mongoose documents: save() of a loaded document writes the modified     *)
(* paths only and validates the modified paths only; save() of a document  *)
(* whose previous save() has not completed is rejected (ParallelSaveError).*)
(***************************************************************************)
EXTENDS Integers, Sequences, FiniteSets, TLC

\* ------------------------------------------------------------ bounds
MaxHandlers == 2   \* handlers in flight at once
MaxPolls    == 2   \* polls created in a run
MaxVotes    == 2   \* votes counted in one poll

Students  == {"s1", "s2"}          \* persistent ids
Sockets   == {"k1", "k2"}          \* connections (socket.id)
Presenter == "t"                   \* the connection that sends the teacher events
Options   == {"a", "b"}            \* option texts of every poll
Answers   == Options \cup {"z"}    \* submitted texts; "z" matches no option
PollIds   == 1..MaxPolls
Slots     == 1..MaxHandlers

NoSock    == "null"
NoStudent == "undefined"
NoPoll    == 0
NaN       == -1                    \* Math.round(NaN)

VARIABLES
    currentActivePoll,      \* server.js:50  a poll id or NoPoll
    pollTimer,              \* server.js:51  the handle held: a timer id or 0
    answeredStudentsCount,  \* server.js:52
    armed,                  \* timers set and neither fired nor cleared
    polls,                  \* the Poll documents: in memory and persisted status
    students,               \* the Student collection
    sockets,                \* the connections and the studentId attached to each
    handlers,               \* the handlers in flight
    listCalled,             \* history: emitStudentListUpdate() has been called
    voted,                  \* history: votes counted per poll and respondent
    unhandled,              \* history: a timer callback rejected
    out                     \* the messages emitted by the step just taken

vars == <<currentActivePoll, pollTimer, answeredStudentsCount, armed, polls,
          students, sockets, handlers, listCalled, voted, unhandled, out>>

\* ------------------------------------------------------------ documents
NoDoc == [exists |-> FALSE, socketId |-> NoSock, hasAnswered |-> FALSE, kicked |-> FALSE]

NewStudent(k) ==
    [exists |-> TRUE, socketId |-> k, hasAnswered |-> FALSE, kicked |-> FALSE]

\* A Poll document: status and votes in memory, dbStatus the persisted status,
\* pend the status a save() in progress is writing ("none": no save in progress).
NoPollDoc ==
    [status |-> "none", votes |-> [o \in Options |-> 0], dbStatus |-> "none", pend |-> "none"]

\* server.js:215-226  new Poll({...}) and newPoll.save() called
NewPoll ==
    [status |-> "active", votes |-> [o \in Options |-> 0], dbStatus |-> "none", pend |-> "active"]

NoPay == [poll |-> NoPoll]

\* A closed connection takes no part any more: its attached studentId is dropped.
ClosedSocket == [state |-> "closed", studentId |-> NoStudent]

Idle ==
    [pc |-> "idle", sock |-> NoSock, sid |-> NoStudent, ans |-> "", poll |-> NoPoll,
     kmod |-> FALSE, smod |-> FALSE, pay |-> NoPay]

RECURSIVE SumOver(_, _)
SumOver(f, S) ==
    IF S = {} THEN 0
    ELSE LET x == CHOOSE y \in S : TRUE IN f[x] + SumOver(f, S \ {x})

\* server.js:164 / 356  options.reduce((sum, opt) => sum + opt.votes, 0)
TotalVotes(p) == SumOver(polls[p].votes, Options)

\* ------------------------------------------------------------ messages
Err(k, text)        == [type |-> "error", to |-> k, text |-> text]
NewPollMsg(k, p)    == [type |-> "newPoll", to |-> k, poll |-> p]
StudentListMsg(l)   == [type |-> "studentListUpdate", to |-> "all", list |-> l]

\* server.js:61  emitStudentListUpdate() is called: the list is read and emitted later
ListCall            == [type |-> "emitStudentListUpdate", to |-> "all"]

\* ------------------------------------------------------------ helpers
InFlight   == {h \in Slots : handlers[h].pc # "idle"}
Quiescent  == InFlight = {}
HasFree    == InFlight # Slots
FreeSlot   == CHOOSE h \in Slots : handlers[h].pc = "idle" /\ \A g \in Slots : g < h => handlers[g].pc # "idle"

\* The handlers in flight are an unordered collection: the slots are kept in one
\* order (by pc, connection and student), the free slots last.
PcNames ==
    <<"idle", "join_find", "join_save", "join_insert", "disc_update", "sub_find", "sub_pollsave",
      "sub_stusave", "sub_count", "cp_reset", "cp_save", "cp_count", "ep_save", "ep_reset",
      "kick_find", "kick_save">>
Key(r) ==
    8 * (CHOOSE i \in 1..Len(PcNames) : PcNames[i] = r.pc)
      + 4 * (IF r.sock = "k1" THEN 1 ELSE 0) + 2 * (IF r.sid = "s1" THEN 1 ELSE 0)
      + (IF r.ans = "a" THEN 1 ELSE 0)
Ordered(hs) ==
    LET f == CHOOSE g \in [Slots -> Slots] :
                 /\ \A i, j \in Slots : i # j => g[i] # g[j]
                 /\ \A i, j \in Slots : i < j => Key(hs[g[i]]) >= Key(hs[g[j]])
    IN  [i \in Slots |-> hs[f[i]]]

\* slot h of the handlers becomes r
Put(h, r) == handlers' = Ordered([handlers EXCEPT ![h] = r])

\* server.js:55-58  Student.find({ kicked: false, socketId: { $ne: null } })
getActiveStudents ==
    {s \in Students : students[s].exists /\ ~students[s].kicked /\ students[s].socketId # NoSock}

\* server.js:104  what the joining client is told
InitialPollFor(k) ==
    IF currentActivePoll # NoPoll /\ polls[currentActivePoll].status = "active"
    THEN NewPollMsg(k, currentActivePoll) ELSE NewPollMsg(k, NoPoll)

\* ------------------------------------------------------------ initial state
Init ==
    /\ currentActivePoll = NoPoll
    /\ pollTimer = 0
    /\ answeredStudentsCount = 0
    /\ armed = {}
    /\ polls = [p \in PollIds |-> NoPollDoc]
    /\ students = [s \in Students |-> NoDoc]
    /\ sockets = [k \in Sockets |-> [state |-> "open", studentId |-> NoStudent]]
    /\ handlers = [h \in Slots |-> Idle]
    /\ listCalled = FALSE
    /\ voted = [p \in PollIds |-> [s \in Students |-> 0]]
    /\ unhandled = FALSE
    /\ out = <<>>

\* ------------------------------------------------------------ connections
\* server.js:77-82  studentJoin, up to the awaited findOne
StudentJoin(k, s) ==
    /\ sockets[k].state = "open"
    /\ HasFree
    /\ sockets' = [sockets EXCEPT ![k].studentId = s]
    /\ Put(FreeSlot, [Idle EXCEPT !.pc = "join_find", !.sock = k, !.sid = s])
    /\ out' = <<>>
    /\ UNCHANGED <<currentActivePoll, pollTimer, answeredStudentsCount, armed, polls,
                   students, listCalled, voted, unhandled>>

\* server.js:82-99  findOne returns; the document is changed and save() is called
JoinFound(h) ==
    LET me == handlers[h]
        st == students[me.sid]
    IN  /\ me.pc = "join_find"
        /\ Put(h, IF st.exists
                  THEN [me EXCEPT !.pc = "join_save", !.smod = (st.socketId # me.sock),
                                  !.kmod = st.kicked]
                  ELSE [me EXCEPT !.pc = "join_insert"])
        /\ out' = <<>>
        /\ UNCHANGED <<currentActivePoll, pollTimer, answeredStudentsCount, armed, polls,
                       students, sockets, listCalled, voted, unhandled>>

\* the record of a student after a join that makes it anew
RejoinedAfresh(st, me) == NewStudent(me.sock)

\* server.js:85-88  the record of an existing student after the join's save():
\* the modified paths are written, socketId and kicked
Rejoined(st, me) ==
    [st EXCEPT !.socketId = IF me.smod THEN me.sock ELSE @,
               !.kicked = IF me.kmod THEN FALSE ELSE @]

\* server.js:85-88, 103-120  save() of the existing student returns
JoinSaved(h) ==
    LET me == handlers[h]
    IN  /\ me.pc = "join_save"
        /\ students' = [students EXCEPT ![me.sid] = Rejoined(@, me)]
        /\ Put(h, Idle)
        /\ listCalled' = TRUE
        /\ out' = <<InitialPollFor(me.sock), ListCall>>
        /\ UNCHANGED <<currentActivePoll, pollTimer, answeredStudentsCount, armed, polls,
                       sockets, voted, unhandled>>

\* server.js:92-99, 103-124  save() of the new student returns; studentId is unique
JoinInserted(h) ==
    LET me == handlers[h]
        dup == students[me.sid].exists
    IN  /\ me.pc = "join_insert"
        /\ students' = IF dup THEN students ELSE [students EXCEPT ![me.sid] = NewStudent(me.sock)]
        /\ Put(h, Idle)
        /\ listCalled' = (listCalled \/ ~dup)
        /\ out' = IF dup THEN <<Err(me.sock, "Failed to join session.")>>
                  ELSE <<InitialPollFor(me.sock), ListCall>>
        /\ UNCHANGED <<currentActivePoll, pollTimer, answeredStudentsCount, armed, polls,
                       sockets, voted, unhandled>>

\* server.js:325-330  the connection closes; disconnect handler up to the awaited updateOne
Disconnect(k) ==
    /\ sockets[k].state = "open"
    /\ HasFree
    /\ sockets' = [sockets EXCEPT ![k] = ClosedSocket]
    /\ Put(FreeSlot, [Idle EXCEPT !.pc = "disc_update", !.sock = k])
    /\ out' = <<>>
    /\ UNCHANGED <<currentActivePoll, pollTimer, answeredStudentsCount, armed, polls,
                   students, listCalled, voted, unhandled>>

\* the records a filter that leaves the socketId out would match
AnyRecord(k) == {s \in Students : students[s].exists}

\* server.js:330  the records matching the filter { socketId: socket.id }
Owners(k) == {s \in Students : students[s].exists /\ students[s].socketId = k}

\* server.js:330-333  updateOne({ socketId: socket.id }, { socketId: null }) returns
DisconnectUpdated(h) ==
    LET me == handlers[h]
        owners == Owners(me.sock)
    IN  /\ me.pc = "disc_update"
        /\ \E s \in (IF owners = {} THEN {NoStudent} ELSE owners) :
              /\ students' = IF s = NoStudent THEN students
                             ELSE [students EXCEPT ![s].socketId = NoSock]
              /\ out' = <<ListCall>>
        /\ Put(h, Idle)
        /\ listCalled' = TRUE
        /\ UNCHANGED <<currentActivePoll, pollTimer, answeredStudentsCount, armed, polls,
                       sockets, voted, unhandled>>

\* server.js:61-64  an emitStudentListUpdate() called earlier reads the list and emits it
EmitStudentList ==
    /\ listCalled
    /\ UNCHANGED listCalled
    /\ out' = <<StudentListMsg(getActiveStudents)>>
    /\ UNCHANGED <<currentActivePoll, pollTimer, answeredStudentsCount, armed, polls,
                   students, sockets, handlers, voted, unhandled>>

\* ------------------------------------------------------------ submitAnswer
\* server.js:129  socket.studentId !== studentId
IdentityMismatch(k, s) == sockets[k].studentId # s

\* a check of the slot alone
NoPollAtAll(p) == currentActivePoll = NoPoll

\* server.js:137  !currentActivePoll || currentActivePoll._id.toString() !== pollId
WrongPoll(p) == currentActivePoll = NoPoll \/ currentActivePoll # p

\* a check of the record's existence alone
NotAStudent(s) == ~students[s].exists

\* server.js:145  !student || student.hasAnswered
AlreadyAnswered(s) == ~students[s].exists \/ students[s].hasAnswered

\* server.js:152  options.findIndex((opt) => opt.text === answer) !== -1
ValidOption(a) == a \in Options

\* ---- server.js:169  Math.round((opt.votes / totalVotes) * 100), in IEEE-754 doubles
\* A positive double is (1 + (d[1]*2^39 + d[2]*2^26 + d[3]*2^13 + d[4]) / 2^52) * 2^e:
\* the 52 fraction bits of its significand in four limbs of 13 bits.
Limb == 8192

RECURSIVE Pow2(_)
Pow2(k) == IF k = 0 THEN 1 ELSE 2 * Pow2(k - 1)

\* the k for which v * 2^k / t lies in [1, 2), for 0 < v <= t
RECURSIVE Shift(_, _)
Shift(v, t) == IF v >= t THEN 0 ELSE 1 + Shift(2 * v, t)

Double(d, e) == [d |-> d, e |-> e]

\* the next double up: one unit in the last place more
NextUp(x) ==
    LET d == x.d
    IN  IF d[4] + 1 < Limb THEN Double(<<d[1], d[2], d[3], d[4] + 1>>, x.e)
        ELSE IF d[3] + 1 < Limb THEN Double(<<d[1], d[2], d[3] + 1, 0>>, x.e)
        ELSE IF d[2] + 1 < Limb THEN Double(<<d[1], d[2] + 1, 0, 0>>, x.e)
        ELSE IF d[1] + 1 < Limb THEN Double(<<d[1] + 1, 0, 0, 0>>, x.e)
        ELSE Double(<<0, 0, 0, 0>>, x.e + 1)

\* round to nearest, ties to even; rest of unit is what lies beyond the last place
RoundNearest(x, rest, unit) ==
    IF 2 * rest > unit \/ (2 * rest = unit /\ x.d[4] % 2 = 1) THEN NextUp(x) ELSE x

\* opt.votes / totalVotes, for 0 < v <= t: long division, 13 bits at a time
FDiv(v, t) ==
    LET k  == Shift(v, t)
        r0 == v * Pow2(k) - t
        l1 == (r0 * Limb) \div t
        r1 == (r0 * Limb) % t
        l2 == (r1 * Limb) \div t
        r2 == (r1 * Limb) % t
        l3 == (r2 * Limb) \div t
        r3 == (r2 * Limb) % t
        l4 == (r3 * Limb) \div t
        r4 == (r3 * Limb) % t
    IN  RoundNearest(Double(<<l1, l2, l3, l4>>, -k), r4, t)

\* x * 100: the exact product, normalised (by 6 or 7 bits) and rounded
FMul100(x) ==
    LET p4 == x.d[4] * 100
        p3 == x.d[3] * 100 + p4 \div Limb
        p2 == x.d[2] * 100 + p3 \div Limb
        p1 == x.d[1] * 100 + p2 \div Limb
        p0 == 100 + p1 \div Limb
        s  == IF p0 >= 128 THEN 7 ELSE 6
        S  == Pow2(s)
        T  == Limb \div S
        n1 == (p0 % S) * T + (p1 % Limb) \div S
        n2 == (p1 % S) * T + (p2 % Limb) \div S
        n3 == (p2 % S) * T + (p3 % Limb) \div S
        n4 == (p3 % S) * T + (p4 % Limb) \div S
    IN  RoundNearest(Double(<<n1, n2, n3, n4>>, x.e + s), p4 % S, S)

\* Math.round(x), for 0 < x < 8192: floor(x + 0.5)
MathRound(x) ==
    IF x.e < -1 THEN 0
    ELSE IF x.e = -1 THEN 1
    ELSE Pow2(x.e) + (x.d[1] \div Pow2(13 - x.e)) + ((x.d[1] \div Pow2(12 - x.e)) % 2)

\* server.js:169  Math.round((opt.votes / totalVotes) * 100); 0 / 0 is NaN
Percentage(v, t) ==
    IF t = 0 THEN NaN ELSE IF v = 0 THEN 0 ELSE MathRound(FMul100(FDiv(v, t)))

\* server.js:164-185  what pollUpdate carries, computed from the active poll
PollStats(p) ==
    [poll |-> p, status |-> polls[p].status, votes |-> polls[p].votes,
     pct |-> [o \in Options |-> Percentage(polls[p].votes[o], TotalVotes(p))],
     totalVoters |-> TotalVotes(p), answeredCount |-> answeredStudentsCount]

PollUpdateMsg(pay, n) == [type |-> "pollUpdate", to |-> "all", pay |-> pay, totalStudents |-> n]

\* server.js:127-144  submitAnswer, up to the awaited findOne
SubmitAnswer(k, s, p, a) ==
    /\ sockets[k].state = "open"
    /\ IF IdentityMismatch(k, s)
       THEN /\ out' = <<Err(k, "Authentication mismatch for submitting answer.")>>
            /\ UNCHANGED handlers
       ELSE IF WrongPoll(p)
       THEN /\ out' = <<Err(k, "No active poll or wrong poll ID.")>>
            /\ UNCHANGED handlers
       ELSE /\ HasFree
            /\ Put(FreeSlot, [Idle EXCEPT !.pc = "sub_find", !.sock = k, !.sid = s, !.ans = a])
            /\ out' = <<>>
    /\ UNCHANGED <<currentActivePoll, pollTimer, answeredStudentsCount, armed, polls,
                   students, sockets, listCalled, voted, unhandled>>

\* server.js:144-157, 193-200  findOne returns; the vote is counted and the poll's save() called
SubmitFound(h) ==
    LET me  == handlers[h]
        cur == currentActivePoll
    IN  /\ me.pc = "sub_find"
        /\ IF AlreadyAnswered(me.sid)
           THEN /\ out' = <<Err(me.sock, "You have already answered this poll or are not a valid student.")>>
                /\ Put(h, Idle)
                /\ UNCHANGED <<polls, voted>>
           ELSE IF cur = NoPoll
           THEN \* currentActivePoll.options of null throws; caught at line 197
                /\ out' = <<Err(me.sock, "Failed to submit answer due to server error.")>>
                /\ Put(h, Idle)
                /\ UNCHANGED <<polls, voted>>
           ELSE IF ~ValidOption(me.ans)
           THEN /\ out' = <<Err(me.sock, "Invalid answer option.")>>
                /\ Put(h, Idle)
                /\ UNCHANGED <<polls, voted>>
           ELSE /\ TotalVotes(cur) < MaxVotes
                /\ voted' = [voted EXCEPT ![cur][me.sid] = @ + 1]
                /\ IF polls[cur].pend # "none"
                   THEN \* ParallelSaveError; caught at line 197
                        /\ polls' = [polls EXCEPT ![cur].votes[me.ans] = @ + 1]
                        /\ out' = <<Err(me.sock, "Failed to submit answer due to server error.")>>
                        /\ Put(h, Idle)
                   ELSE /\ polls' = [polls EXCEPT ![cur].votes[me.ans] = @ + 1,
                                                  ![cur].pend = polls[cur].status]
                        /\ out' = <<>>
                        /\ Put(h, [me EXCEPT !.pc = "sub_pollsave", !.poll = cur])
        /\ UNCHANGED <<currentActivePoll, pollTimer, answeredStudentsCount, armed,
                       students, sockets, listCalled, unhandled>>

\* server.js:157-160  the poll's save() returns; student.save() is called
SubmitPollSaved(h) ==
    LET me == handlers[h]
    IN  /\ me.pc = "sub_pollsave"
        /\ polls' = [polls EXCEPT ![me.poll].dbStatus = polls[me.poll].pend, ![me.poll].pend = "none"]
        /\ Put(h, [me EXCEPT !.pc = "sub_stusave"])
        /\ out' = <<>>
        /\ UNCHANGED <<currentActivePoll, pollTimer, answeredStudentsCount, armed,
                       students, sockets, listCalled, voted, unhandled>>

\* server.js:160-186  the student's save() returns; the counter and the results
SubmitStudentSaved(h) ==
    LET me == handlers[h]
    IN  /\ me.pc = "sub_stusave"
        /\ students' = [students EXCEPT ![me.sid].hasAnswered = TRUE]
        /\ answeredStudentsCount' = answeredStudentsCount + 1
        /\ IF currentActivePoll = NoPoll
           THEN \* currentActivePoll.options of null throws; caught at line 197
                /\ out' = <<Err(me.sock, "Failed to submit answer due to server error.")>>
                /\ Put(h, Idle)
           ELSE /\ out' = <<>>
                /\ Put(h, [me EXCEPT !.pc = "sub_count",
                                      !.pay = [PollStats(currentActivePoll) EXCEPT
                                                  !.answeredCount = answeredStudentsCount + 1]])
        /\ UNCHANGED <<currentActivePoll, pollTimer, armed, polls, sockets,
                       listCalled, voted, unhandled>>

\* server.js:175-192  getActiveStudents() returns; pollUpdate is broadcast
SubmitCounted(h) ==
    LET me == handlers[h]
    IN  /\ me.pc = "sub_count"
        /\ out' = <<PollUpdateMsg(me.pay, Cardinality(getActiveStudents)), ListCall>>
        /\ Put(h, Idle)
        /\ listCalled' = TRUE
        /\ UNCHANGED <<currentActivePoll, pollTimer, answeredStudentsCount, armed, polls,
                       students, sockets, voted, unhandled>>

\* ------------------------------------------------------------ createPoll
\* no check at all
NeverActive == FALSE

\* server.js:205  currentActivePoll && currentActivePoll.status === "active"
PollIsActive == currentActivePoll # NoPoll /\ polls[currentActivePoll].status = "active"

Created   == {p \in PollIds : polls[p].status # "none"}
Creating  == {h \in Slots : handlers[h].pc = "cp_reset"}
NextId    == Cardinality(Created) + 1

\* server.js:204-212  createPoll, up to the awaited updateMany
CreatePoll ==
    /\ IF PollIsActive
       THEN /\ out' = <<Err(Presenter, "A poll is already active. Please wait for it to complete or end it.")>>
            /\ UNCHANGED handlers
       ELSE /\ HasFree
            /\ Cardinality(Created) + Cardinality(Creating) < MaxPolls
            /\ Put(FreeSlot, [Idle EXCEPT !.pc = "cp_reset", !.sock = Presenter])
            /\ out' = <<>>
    /\ UNCHANGED <<currentActivePoll, pollTimer, answeredStudentsCount, armed, polls,
                   students, sockets, listCalled, voted, unhandled>>

\* server.js:212-226  updateMany returns; the counter is reset, the poll made and its save() called
CreateReset(h) ==
    LET me == handlers[h]
    IN  /\ me.pc = "cp_reset"
        /\ students' = [s \in Students |->
              IF students[s].exists /\ students[s].socketId # NoSock /\ ~students[s].kicked
              THEN [students[s] EXCEPT !.hasAnswered = FALSE] ELSE students[s]]
        /\ answeredStudentsCount' = 0
        /\ polls' = [polls EXCEPT ![NextId] = NewPoll]
        /\ Put(h, [me EXCEPT !.pc = "cp_save", !.poll = NextId])
        /\ out' = <<>>
        /\ UNCHANGED <<currentActivePoll, pollTimer, armed, sockets, listCalled, voted, unhandled>>

\* server.js:226-255  save() returns; the poll becomes the active poll, its timer is set
CreateSaved(h) ==
    LET me == handlers[h]
    IN  /\ me.pc = "cp_save"
        /\ polls' = [polls EXCEPT ![me.poll].dbStatus = polls[me.poll].pend, ![me.poll].pend = "none"]
        /\ currentActivePoll' = me.poll
        /\ armed' = (armed \ {pollTimer}) \cup {me.poll}
        /\ pollTimer' = me.poll
        /\ out' = <<NewPollMsg("all", me.poll)>>
        /\ Put(h, [me EXCEPT !.pc = "cp_count",
                              !.pay = [poll |-> me.poll, answeredCount |-> answeredStudentsCount]])
        /\ UNCHANGED <<answeredStudentsCount, students, sockets, listCalled, voted, unhandled>>

\* server.js:252-261  getActiveStudents() returns; the zeroed results are broadcast
CreateCounted(h) ==
    LET me == handlers[h]
    IN  /\ me.pc = "cp_count"
        /\ out' = <<PollUpdateMsg([poll |-> me.pay.poll, status |-> polls[me.pay.poll].status,
                                   votes |-> polls[me.pay.poll].votes,
                                   answeredCount |-> me.pay.answeredCount],
                                  Cardinality(getActiveStudents)), ListCall>>
        /\ Put(h, Idle)
        /\ listCalled' = TRUE
        /\ UNCHANGED <<currentActivePoll, pollTimer, answeredStudentsCount, armed, polls,
                       students, sockets, voted, unhandled>>

\* ------------------------------------------------------------ endPoll
\* a check of the slot alone
NothingToClose(p) == currentActivePoll = NoPoll

\* server.js:342  !currentActivePoll || currentActivePoll._id.toString() !== pollId.toString()
NotTheActivePoll(p) == currentActivePoll = NoPoll \/ currentActivePoll # p

\* server.js:361  totalVotes > 0 ? Math.round((opt.votes / totalVotes) * 100) : 0
FinalPercentage(v, t) == IF t > 0 THEN Percentage(v, t) ELSE 0

\* server.js:356-364  finalResults
FinalResults(p) ==
    [type |-> "pollEnded", to |-> "all", poll |-> p, status |-> polls[p].status,
     votes |-> polls[p].votes,
     pct |-> [o \in Options |-> FinalPercentage(polls[p].votes[o], TotalVotes(p))],
     totalVoters |-> TotalVotes(p)]

LogMsg(text) == [type |-> "log", to |-> "console", text |-> text]

\* server.js:341-353  endPoll(pollId), up to the awaited save(); from is the caller:
\* the Presenter's endPoll handler (268-275) or the timer callback (235-237),
\* arm the timers still armed when it is called
EndPollStart(p, from, arm) ==
    IF NotTheActivePoll(p)
    THEN /\ out' = <<LogMsg("Attempted to end inactive or wrong poll")>>
         /\ armed' = arm
         /\ UNCHANGED <<pollTimer, polls, handlers, unhandled>>
    ELSE /\ armed' = arm \ {pollTimer}
         /\ pollTimer' = 0
         /\ IF polls[p].pend # "none"
            THEN \* ParallelSaveError: endPoll rejects
                 /\ polls' = [polls EXCEPT ![p].status = "completed"]
                 /\ out' = IF from = "timer" THEN <<>> ELSE <<Err(from, "Failed to end poll.")>>
                 /\ unhandled' = (unhandled \/ from = "timer")
                 /\ UNCHANGED handlers
            ELSE /\ HasFree
                 /\ polls' = [polls EXCEPT ![p].status = "completed", ![p].pend = "completed"]
                 /\ Put(FreeSlot, [Idle EXCEPT !.pc = "ep_save", !.sock = from, !.poll = p])
                 /\ out' = <<>>
                 /\ UNCHANGED unhandled

\* server.js:268-270  the endPoll event
EndPoll(p) ==
    /\ EndPollStart(p, Presenter, armed)
    /\ UNCHANGED <<currentActivePoll, answeredStudentsCount, students, sockets, listCalled, voted>>

\* server.js:235-237  the timer fires: endPoll(currentActivePoll._id)
TimerFires(t) ==
    /\ t \in armed
    /\ IF currentActivePoll = NoPoll
       THEN \* reading _id of null throws in the callback
            /\ armed' = armed \ {t}
            /\ unhandled' = TRUE
            /\ out' = <<>>
            /\ UNCHANGED <<pollTimer, polls, handlers>>
       ELSE EndPollStart(currentActivePoll, "timer", armed \ {t})
    /\ UNCHANGED <<currentActivePoll, answeredStudentsCount, students, sockets, listCalled, voted>>

\* server.js:353-371  save() returns; the results are broadcast, the session reset
EndSaved(h) ==
    LET me == handlers[h]
        cur == currentActivePoll
    IN  /\ me.pc = "ep_save"
        /\ polls' = [polls EXCEPT ![me.poll].dbStatus = polls[me.poll].pend, ![me.poll].pend = "none"]
        /\ IF cur = NoPoll
           THEN \* currentActivePoll.options of null throws: endPoll rejects
                /\ out' = IF me.sock = "timer" THEN <<>> ELSE <<Err(me.sock, "Failed to end poll.")>>
                /\ unhandled' = (unhandled \/ me.sock = "timer")
                /\ Put(h, Idle)
                /\ UNCHANGED <<currentActivePoll, answeredStudentsCount>>
           ELSE /\ out' = <<FinalResults(cur)>>
                /\ currentActivePoll' = NoPoll
                /\ answeredStudentsCount' = 0
                /\ Put(h, [me EXCEPT !.pc = "ep_reset"])
                /\ UNCHANGED unhandled
        /\ UNCHANGED <<pollTimer, armed, students, sockets, listCalled, voted>>

\* server.js:371-375  updateMany({}, { hasAnswered: false }) returns
EndReset(h) ==
    LET me == handlers[h]
    IN  /\ me.pc = "ep_reset"
        /\ students' = [s \in Students |->
              IF students[s].exists THEN [students[s] EXCEPT !.hasAnswered = FALSE] ELSE students[s]]
        /\ Put(h, Idle)
        /\ listCalled' = TRUE
        /\ out' = <<ListCall>>
        /\ UNCHANGED <<currentActivePoll, pollTimer, answeredStudentsCount, armed, polls,
                       sockets, voted, unhandled>>

\* ------------------------------------------------------------ kickStudent
\* Student.js:5  socketId is required: save() with socketId set to null fails validation
SocketIdRequired(st) == st.socketId # NoSock

\* server.js:277-279  kickStudent, up to the awaited findOne
KickStudent(s) ==
    /\ HasFree
    /\ Put(FreeSlot, [Idle EXCEPT !.pc = "kick_find", !.sock = Presenter, !.sid = s])
    /\ out' = <<>>
    /\ UNCHANGED <<currentActivePoll, pollTimer, answeredStudentsCount, armed, polls,
                   students, sockets, listCalled, voted, unhandled>>

\* server.js:279-289, 309-312  findOne returns; kicked and socketId are set and save() called
KickFound(h) ==
    LET me == handlers[h]
        st == students[me.sid]
    IN  /\ me.pc = "kick_find"
        /\ IF ~st.exists
           THEN /\ out' = <<Err(me.sock, "Student not found.")>>
                /\ Put(h, Idle)
           ELSE IF SocketIdRequired(st)
           THEN \* socketId is modified to null: ValidationError, caught at line 309
                /\ out' = <<Err(me.sock, "Failed to kick student.")>>
                /\ Put(h, Idle)
           ELSE /\ out' = <<>>
                /\ Put(h, [me EXCEPT !.pc = "kick_save", !.kmod = ~st.kicked])
        /\ UNCHANGED <<currentActivePoll, pollTimer, answeredStudentsCount, armed, polls,
                       students, sockets, listCalled, voted, unhandled>>

\* server.js:289-308  save() returns; the student's socket is told and disconnected
KickSaved(h) ==
    LET me == handlers[h]
        targets == {k \in Sockets : sockets[k].state = "open" /\ sockets[k].studentId = me.sid}
    IN  /\ me.pc = "kick_save"
        /\ students' = [students EXCEPT ![me.sid].kicked = IF me.kmod THEN TRUE ELSE @]
        /\ listCalled' = TRUE
        /\ \E k \in (IF targets = {} THEN {NoSock} ELSE targets) :
              IF k = NoSock
              THEN /\ out' = <<ListCall, [type |-> "studentKicked", to |-> me.sock, studentId |-> me.sid]>>
                   /\ Put(h, Idle)
                   /\ UNCHANGED sockets
              ELSE \* targetSocket.disconnect(true) runs the socket's disconnect handler (325-330)
                   /\ out' = <<[type |-> "studentKicked", to |-> k, studentId |-> me.sid], ListCall,
                               [type |-> "studentKicked", to |-> me.sock, studentId |-> me.sid]>>
                   /\ sockets' = [sockets EXCEPT ![k] = ClosedSocket]
                   /\ Put(h, [Idle EXCEPT !.pc = "disc_update", !.sock = k])
        /\ UNCHANGED <<currentActivePoll, pollTimer, answeredStudentsCount, armed, polls,
                       voted, unhandled>>

\* ------------------------------------------------------------ specifications
\* What a submitAnswer rejected at line 129 or 137 never reads is not varied.
PollIdsRead(k, s)    == IF IdentityMismatch(k, s) THEN {1} ELSE PollIds
AnswersRead(k, s, p) == IF IdentityMismatch(k, s) \/ WrongPoll(p) THEN {"a"} ELSE Answers

\* a message arrives on a connection of K (a join as a student of S), the Presenter
\* sends a poll event, or the timer fires: a handler starts
Receive(K, S) ==
    \/ \E k \in K, s \in S : StudentJoin(k, s)
    \/ \E k \in K, s \in Students : \E p \in PollIdsRead(k, s) : \E a \in AnswersRead(k, s, p) :
          SubmitAnswer(k, s, p, a)
    \/ CreatePoll
    \/ \E p \in PollIds : EndPoll(p)
    \/ \E t \in PollIds : TimerFires(t)

\* an awaited operation of a join, a submitAnswer or a poll event returns: its handler resumes
Resume ==
    \/ \E h \in Slots : JoinFound(h)
    \/ \E h \in Slots : JoinSaved(h)
    \/ \E h \in Slots : JoinInserted(h)
    \/ \E h \in Slots : SubmitFound(h)
    \/ \E h \in Slots : SubmitPollSaved(h)
    \/ \E h \in Slots : SubmitStudentSaved(h)
    \/ \E h \in Slots : SubmitCounted(h)
    \/ \E h \in Slots : CreateReset(h)
    \/ \E h \in Slots : CreateSaved(h)
    \/ \E h \in Slots : CreateCounted(h)
    \/ \E h \in Slots : EndSaved(h)
    \/ \E h \in Slots : EndReset(h)

\* a connection closes, and its handler resumes
Leave       == \E k \in Sockets : Disconnect(k)
ResumeLeave == \E h \in Slots : DisconnectUpdated(h)

\* the Presenter kicks a student, and the handler resumes
Kick ==
    \E s \in Students : KickStudent(s)
ResumeKick ==
    \/ \E h \in Slots : KickFound(h)
    \/ \E h \in Slots : KickSaved(h)

\* The server: every handler, suspended at every await, in every interleaving.
Next ==
    \/ Receive(Sockets, Students)
    \/ Leave
    \/ Kick
    \/ Resume
    \/ ResumeLeave
    \/ ResumeKick
    \/ EmitStudentList

Spec == Init /\ [][Next]_vars

\* Every handler runs to completion before the next one starts.
NextSeq ==
    \/ Quiescent /\ (Receive(Sockets, Students) \/ Leave)
    \/ Resume
    \/ ResumeLeave

SpecSeq == Init /\ [][NextSeq]_vars

\* One respondent on one connection and the Presenter: joins, answers, polls and
\* the timer, suspended at every await, in every interleaving.
NextPoll == Receive({"k1"}, {"s1"}) \/ Resume

SpecPoll == Init /\ [][NextPoll]_vars

\* Presence: joins, closed connections and kicks, suspended at every await, in every
\* interleaving, and the student lists emitted.
NextPresence ==
    \/ \E k \in Sockets, s \in Students : StudentJoin(k, s)
    \/ \E h \in Slots : JoinFound(h)
    \/ \E h \in Slots : JoinSaved(h)
    \/ \E h \in Slots : JoinInserted(h)
    \/ Leave
    \/ Kick
    \/ ResumeLeave
    \/ ResumeKick
    \/ EmitStudentList

SpecPresence == Init /\ [][NextPresence]_vars

\* ---- the results of a poll of any tally
MaxTally == 23   \* votes one option has

\* The poll 1 is the active poll and has the tally v, cast by respondents who are not
\* modelled one by one; either the Presenter's endPoll awaits its save() (line 353), or
\* the vote of s1, the last counted, awaits the student's save() (line 160).
TallyState(v, closing) ==
    /\ currentActivePoll = 1
    /\ pollTimer = (IF closing THEN 0 ELSE 1)
    /\ armed = (IF closing THEN {} ELSE {1})
    /\ answeredStudentsCount = SumOver(v, Options) - (IF closing THEN 0 ELSE 1)
    /\ polls = [p \in PollIds |->
          IF p # 1 THEN NoPollDoc
          ELSE IF closing
          THEN [status |-> "completed", votes |-> v, dbStatus |-> "active", pend |-> "completed"]
          ELSE [status |-> "active", votes |-> v, dbStatus |-> "active", pend |-> "none"]]
    /\ students = [s \in Students |-> IF s = "s1" THEN NewStudent("k1") ELSE NoDoc]
    /\ sockets = [k \in Sockets |->
          [state |-> "open", studentId |-> IF k = "k1" THEN "s1" ELSE NoStudent]]
    /\ handlers = Ordered([h \in Slots |->
          IF h # 1 THEN Idle
          ELSE IF closing THEN [Idle EXCEPT !.pc = "ep_save", !.sock = Presenter, !.poll = 1]
          ELSE [Idle EXCEPT !.pc = "sub_stusave", !.sock = "k1", !.sid = "s1", !.ans = "a",
                            !.poll = 1]])
    /\ listCalled = TRUE
    /\ voted = [p \in PollIds |-> [s \in Students |-> IF p = 1 /\ s = "s1" /\ ~closing THEN 1 ELSE 0]]
    /\ unhandled = FALSE
    /\ out = <<>>

InitPct ==
    \E v \in [Options -> 0..MaxTally], closing \in BOOLEAN :
        /\ closing \/ v["a"] > 0
        /\ TallyState(v, closing)

NextPct ==
    \/ \E h \in Slots : SubmitStudentSaved(h)
    \/ \E h \in Slots : SubmitCounted(h)
    \/ \E h \in Slots : EndSaved(h)
    \/ \E h \in Slots : EndReset(h)

SpecPct == InitPct /\ [][NextPct]_vars

\* ------------------------------------------------------------ properties
AlreadyAnsweredText == "You have already answered this poll or are not a valid student."
AlreadyActiveText   == "A poll is already active. Please wait for it to complete or end it."

Votes == [p \in PollIds |-> polls[p].votes]
Flags == [s \in Students |-> students[s].hasAnswered]

\* no vote count, no hasAnswered flag and not the counter of answers changes
SameTally ==
    /\ Votes' = Votes
    /\ Flags' = Flags
    /\ answeredStudentsCount' = answeredStudentsCount

\* ---- C1
C1_LaterCallRejected ==
    \A h \in Slots :
        LET me == handlers[h]
        IN  (SubmitFound(h) /\ currentActivePoll # NoPoll /\ voted[currentActivePoll][me.sid] > 0)
                => /\ out' = <<Err(me.sock, AlreadyAnsweredText)>>
                   /\ SameTally

C2_NoDoubleCount ==
    \A p \in PollIds : TotalVotes(p) <= Cardinality({s \in Students : voted[p][s] > 0})

\* ---- C3
\* C3: in every interleaving, at most one poll record has the status active, and the
\* record that has it is the poll currentActivePoll refers to.
C3_OneActivePoll ==
    \A p \in PollIds :
        polls[p].dbStatus = "active"
            => /\ currentActivePoll = p
               /\ \A q \in PollIds : polls[q].dbStatus = "active" => q = p

\* ---- C4
C4_Rejected ==
    (CreatePoll /\ currentActivePoll # NoPoll /\ polls[currentActivePoll].dbStatus = "active")
        => /\ out' = <<Err(Presenter, AlreadyActiveText)>>
           /\ UNCHANGED <<currentActivePoll, pollTimer, answeredStudentsCount, armed, polls,
                          students, handlers>>

\* C4: a createPoll received while a poll is active is answered with the
\* already-active error, sent to the Presenter alone, and starts nothing: no poll record
\* is made, no vote count, no hasAnswered flag, not answeredStudentsCount and not the
\* timer changes.
C4_CreateWhileActiveFails == [][C4_Rejected]_vars

\* a createPoll has just been rejected while a poll with a vote and its timer is active
C4_CreateRejected ==
    /\ out = <<Err(Presenter, AlreadyActiveText)>>
    /\ currentActivePoll # NoPoll
    /\ polls[currentActivePoll].dbStatus = "active"
    /\ TotalVotes(currentActivePoll) > 0
    /\ armed = {currentActivePoll}

\* ---- C5
\* round(100 * v / t), a half rounded up
RoundHalfUp(v, t) == (200 * v + t) \div (2 * t)

ResultsSent ==
    {out[i] : i \in {j \in 1..Len(out) : out[j].type = "pollEnded"}}
        \cup {out[i].pay : i \in {j \in 1..Len(out) :
                  out[j].type = "pollUpdate" /\ "pct" \in DOMAIN out[j].pay}}

\* C5: in every pollEnded and every pollUpdate sent after a counted vote, totalVoters is
\* the sum of the vote counts, and the percentage of every option is
\* round(100 * votes / totalVoters), a half rounded up, or 0 when totalVoters is 0.
C5_ResultsExact ==
    \A m \in ResultsSent :
        /\ m.totalVoters = SumOver(m.votes, Options)
        /\ \A o \in Options :
              m.pct[o] = IF m.totalVoters > 0 THEN RoundHalfUp(m.votes[o], m.totalVoters) ELSE 0

\* ---- C6
C6_Saved ==
    \A h \in Slots :
        LET me == handlers[h]
        IN  (KickFound(h) /\ students[me.sid].exists /\ students[me.sid].socketId # NoSock)
                => /\ \A i \in 1..Len(out') : out'[i].type # "error"
                   /\ \E g \in Slots : handlers'[g].pc = "kick_save" /\ handlers'[g].sid = me.sid

\* C6: the kick of a known, connected student goes on to save the record, kicked and
\* with no socketId, and is not answered with an error.
C6_KickSucceeds == [][C6_Saved]_vars

\* ---- C7
C7_Kept ==
    /\ \A h \in Slots :
          JoinSaved(h) =>
              students'[handlers[h].sid].hasAnswered = students[handlers[h].sid].hasAnswered
    /\ \A h \in Slots :
          (SubmitFound(h) /\ students[handlers[h].sid].hasAnswered)
              => /\ out' = <<Err(handlers[h].sock, AlreadyAnsweredText)>>
                 /\ Votes' = Votes

C8_IdleIsEmpty ==
    (currentActivePoll = NoPoll /\ Quiescent)
        => /\ armed = {}
           /\ answeredStudentsCount = 0
           /\ \A s \in Students : ~students[s].hasAnswered

\* ---- C9
C9_Frame ==
    /\ \A k \in Sockets, s \in Students : \A p \in PollIdsRead(k, s) : \A a \in AnswersRead(k, s, p) :
          ((sockets[k].studentId # s \/ currentActivePoll # p) /\ SubmitAnswer(k, s, p, a))
              => /\ out' = <<Err(k, IF sockets[k].studentId # s
                                    THEN "Authentication mismatch for submitting answer."
                                    ELSE "No active poll or wrong poll ID.")>>
                 /\ SameTally
                 /\ UNCHANGED handlers
    /\ \A h \in Slots :
          LET me == handlers[h]
          IN  ( /\ SubmitFound(h)
                /\ students[me.sid].exists /\ ~students[me.sid].hasAnswered
                /\ currentActivePoll # NoPoll
                /\ me.ans \notin Options )
                  => /\ out' = <<Err(me.sock, "Invalid answer option.")>>
                     /\ SameTally

\* C9: a submitAnswer under another id than the connection's, for another poll than the
\* active one (or with none active), or with a text that is no option, is answered with
\* one error sent to its connection alone, and nothing else is sent; it changes no vote
\* count, no hasAnswered flag and not answeredStudentsCount, so that the respondent of a
\* rejected text can still vote.
C9_RejectionChangesNothing == [][C9_Frame]_vars

\* a text that is no option has just been rejected, and the respondent can still vote
C9_InvalidOptionRejected ==
    \E k \in Sockets :
        /\ out = <<Err(k, "Invalid answer option.")>>
        /\ sockets[k].studentId \in Students
        /\ students[sockets[k].studentId].exists
        /\ ~students[sockets[k].studentId].hasAnswered
        /\ currentActivePoll # NoPoll
        /\ polls[currentActivePoll].status = "active"

\* ---- C10
C10_Step ==
    \A p \in PollIds, o \in Options :
        /\ polls'[p].votes[o] >= polls[p].votes[o]
        /\ polls[p].status = "completed" => polls'[p].votes[o] = polls[p].votes[o]

\* C10: in every interleaving, no vote count ever decreases, and no vote count of a poll
\* whose status is completed changes.
C10_FrozenOnceCompleted == [][C10_Step]_vars

\* ------------------------------------------------------------ polls and their closing
\* an awaited operation of a createPoll or of an endPoll returns
CloseResume ==
    \/ \E h \in Slots : CreateReset(h)
    \/ \E h \in Slots : CreateSaved(h)
    \/ \E h \in Slots : CreateCounted(h)
    \/ \E h \in Slots : EndSaved(h)
    \/ \E h \in Slots : EndReset(h)

\* The Presenter's createPoll and endPoll and the timer, suspended at every await, in
\* every interleaving.
NextClose ==
    \/ CreatePoll
    \/ \E p \in PollIds : EndPoll(p)
    \/ \E t \in PollIds : TimerFires(t)
    \/ CloseResume

\* every awaited store operation returns, and every armed timer fires
FairClose ==
    /\ WF_vars(\E h \in Slots : CreateReset(h))
    /\ WF_vars(\E h \in Slots : CreateSaved(h))
    /\ WF_vars(\E h \in Slots : CreateCounted(h))
    /\ WF_vars(\E h \in Slots : EndSaved(h))
    /\ WF_vars(\E h \in Slots : EndReset(h))
    /\ WF_vars(\E t \in PollIds : TimerFires(t))

SpecClose == Init /\ [][NextClose]_vars /\ FairClose

\* ---- C11
\* C11: timers fire and store operations return; in every interleaving of createPoll,
\* endPoll and the timer, every poll record saved with the status active is later saved
\* with the status completed.
C11_EveryPollCloses ==
    \A p \in PollIds : [](polls[p].dbStatus = "active" => <>(polls[p].dbStatus = "completed"))

\* ---- C12
C12_Fired ==
    \A t \in PollIds :
        TimerFires(t) =>
            \/ currentActivePoll = t
            \/ /\ out' = <<LogMsg("Attempted to end inactive or wrong poll")>>
               /\ UNCHANGED <<currentActivePoll, pollTimer, answeredStudentsCount, polls,
                              students, handlers, unhandled>>

\* C12: the timer set for a poll, when it fires, either finds that poll the active one
\* and closes it, or is ignored: the mismatch is logged, nothing changes and nothing is
\* thrown. It closes no other poll and does not act while no poll is active.
C12_TimerClosesItsPoll == [][C12_Fired]_vars

C14_Bound ==
    \A k \in Sockets :
        (sockets[k].studentId # NoStudent /\ sockets'[k].state = "open")
            => sockets'[k].studentId = sockets[k].studentId

\* C14: the studentId attached to a connection by its first join stays the same for as
\* long as the connection is open; a later join on the connection does not replace it.
C14_BoundOnce == [][C14_Bound]_vars

\* ------------------------------------------------------------ store writes that fail
ServerErrorText == "Failed to submit answer due to server error."

\* server.js:157, 197-200  currentActivePoll.save() rejects: nothing is persisted
SubmitPollSaveFailed(h) ==
    LET me == handlers[h]
    IN  /\ me.pc = "sub_pollsave"
        /\ polls' = [polls EXCEPT ![me.poll].pend = "none"]
        /\ out' = <<Err(me.sock, ServerErrorText)>>
        /\ Put(h, Idle)
        /\ UNCHANGED <<currentActivePoll, pollTimer, answeredStudentsCount, armed,
                       students, sockets, listCalled, voted, unhandled>>

\* server.js:160, 197-200  student.save() rejects: nothing is persisted
SubmitStudentSaveFailed(h) ==
    LET me == handlers[h]
    IN  /\ me.pc = "sub_stusave"
        /\ out' = <<Err(me.sock, ServerErrorText)>>
        /\ Put(h, Idle)
        /\ UNCHANGED <<currentActivePoll, pollTimer, answeredStudentsCount, armed, polls,
                       students, sockets, listCalled, voted, unhandled>>

\* server.js:212, 262-265  Student.updateMany rejects
CreateResetFailed(h) ==
    LET me == handlers[h]
    IN  /\ me.pc = "cp_reset"
        /\ out' = <<Err(me.sock, "Failed to create poll.")>>
        /\ Put(h, Idle)
        /\ UNCHANGED <<currentActivePoll, pollTimer, answeredStudentsCount, armed, polls,
                       students, sockets, listCalled, voted, unhandled>>

\* server.js:226, 262-265  newPoll.save() rejects: the document made is dropped
CreateSaveFailed(h) ==
    LET me == handlers[h]
    IN  /\ me.pc = "cp_save"
        /\ polls' = [polls EXCEPT ![me.poll].pend = "none"]
        /\ out' = <<Err(me.sock, "Failed to create poll.")>>
        /\ Put(h, Idle)
        /\ UNCHANGED <<currentActivePoll, pollTimer, answeredStudentsCount, armed,
                       students, sockets, listCalled, voted, unhandled>>

StoreFails ==
    \/ \E h \in Slots : SubmitPollSaveFailed(h)
    \/ \E h \in Slots : SubmitStudentSaveFailed(h)
    \/ \E h \in Slots : CreateResetFailed(h)
    \/ \E h \in Slots : CreateSaveFailed(h)

\* One respondent on one connection and the Presenter, every handler run to its end
\* before the next one starts, and every store write of submitAnswer and createPoll may fail.
NextFail ==
    \/ Quiescent /\ Receive({"k1"}, {"s1"})
    \/ Resume
    \/ StoreFails

SpecFail == Init /\ [][NextFail]_vars

\* ---- C15
C15_Undone ==
    /\ \A h \in Slots :
          LET me == handlers[h]
          IN  (SubmitPollSaveFailed(h) \/ SubmitStudentSaveFailed(h))
                  => /\ out' = <<Err(me.sock, ServerErrorText)>>
                     /\ polls'[me.poll].votes[me.ans] = polls[me.poll].votes[me.ans] - 1
                     /\ ~students'[me.sid].hasAnswered
                     /\ UNCHANGED <<answeredStudentsCount, currentActivePoll>>
    /\ \A h \in Slots :
          (CreateResetFailed(h) \/ CreateSaveFailed(h))
              => /\ out' = <<Err(Presenter, "Failed to create poll.")>>
                 /\ Votes' = Votes
                 /\ Flags' = Flags
                 /\ UNCHANGED <<answeredStudentsCount, currentActivePoll>>

\* C15: with the handlers run one at a time, a submitAnswer whose save of the poll or of
\* the student fails is answered with an error and leaves the active poll's vote counts
\* as they were before the message (its own increment is taken back), the hasAnswered
\* flag false, answeredStudentsCount and currentActivePoll unchanged; a createPoll whose
\* write fails is answered with an error and changes no vote count, flag, counter or
\* currentActivePoll.
C15_FailedWriteAppliesNothing == [][C15_Undone]_vars

\* ---- C16
\* C16: in every interleaving of createPoll, endPoll and the timer, a pollEnded that is
\* sent carries a poll whose status is completed: the poll that was closed.
C16_ClosedPollSent ==
    \A i \in 1..Len(out) : out[i].type = "pollEnded" => out[i].status = "completed"

\* ---- C17
C17_Ignored ==
    \A p \in PollIds :
        (EndPoll(p) /\ currentActivePoll # p)
            => /\ UNCHANGED <<currentActivePoll, pollTimer, armed, polls,
                              answeredStudentsCount, students, handlers>>
               /\ \A i \in 1..Len(out') :
                     out'[i].type \notin {"pollEnded", "studentListUpdate", "emitStudentListUpdate"}

\* C17: an endPoll for another poll than the active one, or received while no poll is
\* active, changes neither currentActivePoll, the timer, a poll's status or vote counts,
\* answeredStudentsCount nor a hasAnswered flag, and sends no pollEnded and no student list.
C17_WrongCloseChangesNothing == [][C17_Ignored]_vars

\* an endPoll has just been ignored while a poll with a vote and its timer is active
C17_WrongCloseIgnored ==
    /\ out = <<LogMsg("Attempted to end inactive or wrong poll")>>
    /\ currentActivePoll # NoPoll
    /\ polls[currentActivePoll].status = "active"
    /\ TotalVotes(currentActivePoll) > 0
    /\ armed = {currentActivePoll}
    /\ \E s \in Students : students[s].hasAnswered

\* ---- C18
Submitting == {h \in Slots : handlers[h].pc \in {"sub_find", "sub_pollsave", "sub_stusave", "sub_count"}}

\* C18: in every interleaving, whenever a poll is active and no submitAnswer is in
\* flight, answeredStudentsCount is the sum of the active poll's vote counts and the
\* number of students whose hasAnswered is set.
C18_CounterIsTally ==
    (PollIsActive /\ Submitting = {})
        => /\ answeredStudentsCount = TotalVotes(currentActivePoll)
           /\ answeredStudentsCount = Cardinality({s \in Students : students[s].hasAnswered})

\* ------------------------------------------------------------ answers and kicks
\* the state after the Presenter's first createPoll has run to its end: poll 1 is active
InitBlock ==
    /\ currentActivePoll = 1
    /\ pollTimer = 1
    /\ answeredStudentsCount = 0
    /\ armed = {1}
    /\ polls = [p \in PollIds |->
          IF p = 1 THEN [NewPoll EXCEPT !.dbStatus = "active", !.pend = "none"] ELSE NoPollDoc]
    /\ students = [s \in Students |-> NoDoc]
    /\ sockets = [k \in Sockets |-> [state |-> "open", studentId |-> NoStudent]]
    /\ handlers = [h \in Slots |-> Idle]
    /\ listCalled = TRUE
    /\ voted = [p \in PollIds |-> [s \in Students |-> 0]]
    /\ unhandled = FALSE
    /\ out = <<PollUpdateMsg([poll |-> 1, status |-> "active", votes |-> NewPoll.votes,
                              answeredCount |-> 0], 0), ListCall>>

\* One student on two connections and the Presenter's kicks while poll 1 is active:
\* joins, answers, closed connections and kicks, suspended at every await, in every
\* interleaving.
NextBlock ==
    \/ \E k \in Sockets : StudentJoin(k, "s1")
    \/ \E k \in Sockets : \E a \in AnswersRead(k, "s1", 1) : SubmitAnswer(k, "s1", 1, a)
    \/ KickStudent("s1")
    \/ Leave
    \/ \E h \in Slots : JoinFound(h)
    \/ \E h \in Slots : JoinSaved(h)
    \/ \E h \in Slots : JoinInserted(h)
    \/ \E h \in Slots : SubmitFound(h)
    \/ \E h \in Slots : SubmitPollSaved(h)
    \/ \E h \in Slots : SubmitStudentSaved(h)
    \/ \E h \in Slots : SubmitCounted(h)
    \/ ResumeLeave
    \/ ResumeKick

SpecBlock == InitBlock /\ [][NextBlock]_vars

\* ---- C19
C19_NotCounted ==
    \A h \in Slots :
        (SubmitFound(h) /\ students[handlers[h].sid].exists /\ students[handlers[h].sid].kicked)
            => Votes' = Votes

C20_OnlyOwner ==
    \A h \in Slots :
        /\ DisconnectUpdated(h) =>
              /\ \A s \in Students :
                    /\ students[s].socketId # handlers[h].sock => students'[s] = students[s]
                    /\ students'[s] # students[s] =>
                          students'[s] = [students[s] EXCEPT !.socketId = NoSock]
                    /\ (s \in getActiveStudents /\ students[s].socketId # handlers[h].sock)
                          => s \in getActiveStudents'
              /\ Owners(handlers[h].sock) = {} => students' = students
        /\ (JoinSaved(h) /\ handlers[h].smod) =>
              students'[handlers[h].sid].socketId = handlers[h].sock

\* C20: in every interleaving, the disconnect handler's update changes only a record
\* whose socketId is the closed connection, and only by setting its socketId to null: a
\* record holding another (newer) connection stays as it is and stays in the list of
\* active students, an update matching no record changes none, and a join in flight that
\* found the record on another connection still ends with its own connection in it.
C20_DisconnectMarksOnlyOwner == [][C20_OnlyOwner]_vars

\* the disconnect handler of the closed k1 has just run while the student is on k2
C20_OldConnectionClosed ==
    /\ out = <<ListCall>>
    /\ Quiescent
    /\ sockets["k1"].state = "closed"
    /\ sockets["k2"].state = "open"
    /\ sockets["k2"].studentId = "s1"
    /\ students["s1"].exists
    /\ students["s1"].socketId = "k2"
    /\ "s1" \in getActiveStudents
    /\ ~students["s2"].exists
====
